---- MODULE Spec2Model ----
(***************************************************************************)
(* The worker pool of s5cmd (worker.go): NumWorkers goroutines receive job *)
(* chains from an unbuffered channel, run every node of a chain with       *)
(* retries on rate-limit errors, and stop on channel close or on           *)
(* cancellation of the shared context.  The feeder is Run (a stream of     *)
(* lines) or RunCmd (one command line).                                    *)
(*                                                                         *)
(* Go's select is modelled as the runtime performs it: a goroutine that    *)
(* is blocked in a select is completed by the first case that becomes      *)
(* ready, and a select that finds several cases ready on entry takes any   *)
(* of them.  A handoff on the unbuffered jobQueue needs one side blocked   *)
(* on it; after ctx.Done() is closed every blocked select has been         *)
(* completed with the Done case and a newly entered select finds Done      *)
(* ready and does not block, so no handoff takes place after the cancel.   *)
(* Likewise a timer of positive duration is not ready when its select is   *)
(* entered, so a backoff select entered or blocked at the cancel takes     *)
(* the Done case.                                                          *)
(***************************************************************************)
EXTENDS Integers, Sequences, FiniteSets, TLC

\* ---------------------------------------------------------------- bounds
MaxLines == 2
MaxWorkers == 2
MaxRetries == 2
MaxRetriesDeep == 7

\* ------------------------------------------------------------- constants
\* bkf.InitialInterval, bkf.MaxInterval (milliseconds), bkf.Multiplier
InitialInterval == 1000
MaxInterval == 60000
Multiplier == 2

NoJob == "nil"

\* Job chains that ParseJob can return, one per kind of input line.  act is
\* what job.Run returns on every attempt: "ok" nil, "rl" a rate-limit
\* error, "err" another error, "any" any of the three.
JobTable ==
  [ A |-> [act |-> "ok",  successCommand |-> "B",   failCommand |-> NoJob],
    B |-> [act |-> "ok",  successCommand |-> "C",   failCommand |-> NoJob],
    C |-> [act |-> "ok",  successCommand |-> NoJob, failCommand |-> NoJob],
    R |-> [act |-> "rl",  successCommand |-> "S",   failCommand |-> "Q"],
    S |-> [act |-> "ok",  successCommand |-> NoJob, failCommand |-> NoJob],
    Q |-> [act |-> "rl",  successCommand |-> NoJob, failCommand |-> NoJob],
    X |-> [act |-> "any", successCommand |-> NoJob, failCommand |-> "Z"],
    Z |-> [act |-> "err", successCommand |-> NoJob, failCommand |-> NoJob] ]

Nodes == DOMAIN JobTable

\* Input lines: "bad" does not parse, the others parse to the chain rooted
\* at the node of the same name.
Lines == {"bad", "A", "R", "X"}

VARIABLES
  params,     \* WorkerPoolParams: NumWorkers, Retries
  mode,       \* "Run" or "RunCmd"
  input,      \* the lines of the source (Run) or the command line (RunCmd)
  pos,        \* lines read so far
  fpc,        \* the feeder's position
  line,       \* the line singleRun was called with
  frun,       \* Run's local variable run
  ret,        \* what the last call of singleRun returned: "none" before
              \* the first return, then "true" or "false"
  closed,     \* Run's local variable closed
  qclosed,    \* jobQueue is closed
  closes,     \* number of close(jobQueue) calls
  ctxDone,    \* p.ctx is canceled
  wg,         \* the WaitGroup's counter
  pc,         \* per worker: "idle", "exec", "backoff", "done"
  job,        \* per worker: the chain node in hand (NoJob when idle)
  jid,        \* per worker: the input line the chain came from
  tries,      \* per worker
  run,        \* per worker: the loop variable run
  bkf,        \* per worker: the backoff's current interval
  sleepTime,  \* per worker: the last sleepTime of the node in hand
  stats,      \* STATS_RETRYOP and STATS_FAIL
  log,        \* the lines logged
  hist        \* per job instance: job.Run calls, retry increments, and the
              \* error the last job.Run call returned ("none" before it)

vars == << params, mode, input, pos, fpc, line, frun, ret, closed, qclosed, closes,
           ctxDone, wg, pc, job, jid, tries, run, bkf, sleepTime, stats, log,
           hist >>

fvars == << pos, fpc, line, frun, ret, closed >>
wvars == << pc, job, jid, tries, run, bkf, sleepTime >>

Workers == 1 .. params.NumWorkers
Retries == params.Retries

\* ----------------------------------------------------------- collaborators
\* ParseJob: the root node of the chain, or NoJob for a parse error.
ParseJob(l) == IF l = "bad" THEN NoJob ELSE l

\* job.Run: the errors the action of node n can return.
RunOutcomes(n) ==
  CASE JobTable[n].act = "ok"  -> {"nil"}
    [] JobTable[n].act = "rl"  -> {"ratelimit"}
    [] JobTable[n].act = "err" -> {"other"}
    [] OTHER                   -> {"nil", "ratelimit", "other"}

\* Faulty variant: every error counts as a rate-limit error
IsRatelimitErrorAlways(err) == TRUE

IsRatelimitError(err) == err = "ratelimit"

\* ------------------------------------------------------------------ backoff
\* ExponentialBackOff with the library's default randomization factor 1/2:
\* NextBackOff returns a value drawn from [cur - cur/2, cur + cur/2] (here one
\* of the two ends) and then raises the current interval.  Wall-clock time is
\* not part of the model, so neither is the library's MaxElapsedTime.
RandomValuesFromInterval(cur) == {cur - (cur \div 2), cur + (cur \div 2)}

IncrementCurrentInterval(cur) ==
  IF cur >= MaxInterval \div Multiplier THEN MaxInterval ELSE cur * Multiplier

\* Faulty variant: the interval the backoff is reset to lies above MaxInterval
BkfResetAboveMax == MaxInterval * Multiplier

\* bkf.Reset(): the current interval is InitialInterval again
BkfReset == InitialInterval

\* ------------------------------------------------------------------- init
InitWith(retrySet, workerSet, maxLines) ==
  /\ params \in [NumWorkers : workerSet, Retries : retrySet]
  /\ mode \in {"Run", "RunCmd"}
  /\ input \in UNION {[1 .. n -> Lines] : n \in 0 .. maxLines}
  /\ mode = "RunCmd" => Len(input) = 1
  /\ pos = IF mode = "RunCmd" THEN 1 ELSE 0
  /\ fpc = IF mode = "RunCmd" THEN "singleRun" ELSE "read"
  /\ line = IF mode = "RunCmd" THEN input[1] ELSE ""
  /\ frun = TRUE
  /\ ret = "none"
  /\ closed = FALSE
  /\ qclosed = FALSE
  /\ closes = 0
  /\ ctxDone = FALSE
  /\ wg = params.NumWorkers
  /\ pc = [w \in Workers |-> "idle"]
  /\ job = [w \in Workers |-> NoJob]
  /\ jid = [w \in Workers |-> 0]
  /\ tries = [w \in Workers |-> 0]
  /\ run = [w \in Workers |-> TRUE]
  /\ bkf = [w \in Workers |-> BkfReset]
  /\ sleepTime = [w \in Workers |-> 0]
  /\ stats = [RETRYOP |-> 0, FAIL |-> 0]
  /\ log = [w \in 0 .. params.NumWorkers |-> << >>]
  /\ hist = [i \in 1 .. Len(input), n \in Nodes |->
              [runs |-> 0, retryops |-> 0, err |-> "none"]]

Init == InitWith(0 .. MaxRetries, 1 .. MaxWorkers, MaxLines)


\* ----------------------------------------------------------------- helpers
\* One log line; log[w] holds the lines written by worker w in the order it
\* wrote them, log[0] those written by the feeder.
Entry(kind, i, n) == [kind |-> kind, jid |-> i, job |-> n]

Printf(w, e) == log' = [log EXCEPT ![w] = Append(@, e)]

Increment(key) == stats' = [stats EXCEPT ![key] = @ + 1]

\* close(p.jobQueue)
Close ==
  /\ qclosed' = TRUE
  /\ closes' = closes + 1

\* ------------------------------------------------------------------ worker
\* Faulty variant: the first rate-limit error is retried whatever the budget
RetryableFirstError(err, t) == IsRatelimitError(err) /\ (t = 0 \/ t < Retries)

\* Faulty variant: one retry too many
RetryableOffByOne(err, t) == IsRatelimitError(err) /\ Retries > 0 /\ t <= Retries

\* line 101: the error is retried
Retryable(err, t) == IsRatelimitError(err) /\ Retries > 0 /\ t < Retries

\* Faulty variants: the two continuations taken for one another
FailNextIsSuccess(n) == JobTable[n].successCommand
SuccessNextIsFail(n) == JobTable[n].failCommand

\* lines 116 and 119: the continuation the worker advances to
FailNext(n) == JobTable[n].failCommand
SuccessNext(n) == JobTable[n].successCommand

\* Faulty variant: a worker whose run is false leaves in the middle of its chain
AdvanceAbandonsChain(w, next, runflag) ==
  /\ job' = [job EXCEPT ![w] = IF runflag THEN next ELSE NoJob]
  /\ tries' = [tries EXCEPT ![w] = 0]
  /\ bkf' = [bkf EXCEPT ![w] = BkfReset]
  /\ sleepTime' = [sleepTime EXCEPT ![w] = 0]
  /\ run' = [run EXCEPT ![w] = runflag]
  /\ IF next # NoJob /\ runflag
       THEN /\ pc' = [pc EXCEPT ![w] = "exec"]
            /\ UNCHANGED << jid, wg >>
       ELSE /\ jid' = [jid EXCEPT ![w] = 0]
            /\ IF runflag
                 THEN /\ pc' = [pc EXCEPT ![w] = "idle"]
                      /\ wg' = wg
                 ELSE /\ pc' = [pc EXCEPT ![w] = "done"]
                      /\ wg' = wg - 1

\* Faulty variant: tries and the backoff are carried over to the next node
AdvanceKeepsBudget(w, next, runflag) ==
  /\ job' = [job EXCEPT ![w] = next]
  /\ IF next # NoJob
       THEN UNCHANGED << tries, bkf >>
       ELSE /\ tries' = [tries EXCEPT ![w] = 0]
            /\ bkf' = [bkf EXCEPT ![w] = BkfReset]
  /\ sleepTime' = [sleepTime EXCEPT ![w] = 0]
  /\ run' = [run EXCEPT ![w] = runflag]
  /\ IF next # NoJob
       THEN /\ pc' = [pc EXCEPT ![w] = "exec"]
            /\ UNCHANGED << jid, wg >>
       ELSE /\ jid' = [jid EXCEPT ![w] = 0]
            /\ IF runflag
                 THEN /\ pc' = [pc EXCEPT ![w] = "idle"]
                      /\ wg' = wg
                 ELSE /\ pc' = [pc EXCEPT ![w] = "done"]
                      /\ wg' = wg - 1

\* lines 121-123 and 89-90: the node in hand is resolved, the worker moves to
\* the continuation next; at the end of the chain it goes back to the outer
\* select, or leaves the loop (and runs the deferred wg.Done) when run is
\* false.
Advance(w, next, runflag) ==
  /\ job' = [job EXCEPT ![w] = next]
  /\ tries' = [tries EXCEPT ![w] = 0]
  /\ bkf' = [bkf EXCEPT ![w] = BkfReset]
  /\ sleepTime' = [sleepTime EXCEPT ![w] = 0]
  /\ run' = [run EXCEPT ![w] = runflag]
  /\ IF next # NoJob
       THEN /\ pc' = [pc EXCEPT ![w] = "exec"]
            /\ UNCHANGED << jid, wg >>
       ELSE /\ jid' = [jid EXCEPT ![w] = 0]
            /\ IF runflag
                 THEN /\ pc' = [pc EXCEPT ![w] = "idle"]
                      /\ wg' = wg
                 ELSE /\ pc' = [pc EXCEPT ![w] = "done"]
                      /\ wg' = wg - 1

\* lines 114-116
Fail(w, runflag) ==
  /\ Printf(w, Entry("-ERR", jid[w], job[w]))
  /\ Increment("FAIL")
  /\ Advance(w, FailNext(job[w]), runflag)

\* lines 118-119
Ok(w) ==
  /\ Printf(w, Entry("+OK", jid[w], job[w]))
  /\ UNCHANGED stats
  /\ Advance(w, SuccessNext(job[w]), run[w])

\* lines 102-105: the worker starts to sleep before a retry
StartBackoff(w) ==
  /\ tries' = [tries EXCEPT ![w] = @ + 1]
  /\ \E st \in RandomValuesFromInterval(bkf[w]) :
       sleepTime' = [sleepTime EXCEPT ![w] = st]
  /\ bkf' = [bkf EXCEPT ![w] = IncrementCurrentInterval(@)]
  /\ Printf(w, Entry("?Ratelimit", jid[w], job[w]))
  /\ pc' = [pc EXCEPT ![w] = "backoff"]
  /\ UNCHANGED << job, jid, run, wg, stats >>

\* lines 99-123: one attempt of the node in hand
JobRun(w) ==
  /\ pc[w] = "exec"
  /\ \E err \in RunOutcomes(job[w]) :
       /\ hist' = [hist EXCEPT ![jid[w], job[w]] =
                     [@ EXCEPT !.runs = @ + 1, !.err = err]]
       /\ IF err # "nil"
            THEN IF Retryable(err, tries[w]) THEN StartBackoff(w)
                                             ELSE Fail(w, run[w])
            ELSE Ok(w)
  /\ UNCHANGED << params, mode, input, fvars, qclosed, closes, ctxDone >>

\* Faulty variant: the timer case can be taken after the cancel
TimerReadyAfterCancel(w) == pc[w] = "backoff"

\* line 106: the timer fires while the worker is blocked in the select
TimerReady(w) == pc[w] = "backoff" /\ ~ctxDone

\* Faulty variant: the retry is performed but not counted
SleepElapsedUncounted(w) ==
  /\ TimerReady(w)
  /\ hist' = [hist EXCEPT ![jid[w], job[w]].retryops = @ + 1]
  /\ pc' = [pc EXCEPT ![w] = "exec"]
  /\ UNCHANGED << params, mode, input, fvars, qclosed, closes, ctxDone, wg,
                  job, jid, tries, run, bkf, sleepTime, log, stats >>

\* lines 106-108
SleepElapsed(w) ==
  /\ TimerReady(w)
  /\ Increment("RETRYOP")
  /\ hist' = [hist EXCEPT ![jid[w], job[w]].retryops = @ + 1]
  /\ pc' = [pc EXCEPT ![w] = "exec"]
  /\ UNCHANGED << params, mode, input, fvars, qclosed, closes, ctxDone, wg,
                  job, jid, tries, run, bkf, sleepTime, log >>

\* Faulty variant: the Done case of the backoff select retries like the timer case
SleepCanceledRetries(w) ==
  /\ pc[w] = "backoff"
  /\ ctxDone
  /\ pc' = [pc EXCEPT ![w] = "exec"]
  /\ run' = [run EXCEPT ![w] = FALSE]
  /\ UNCHANGED << params, mode, input, fvars, qclosed, closes, ctxDone, wg,
                  job, jid, tries, bkf, sleepTime, stats, log, hist >>

\* Faulty variant: the Done case of the backoff select leaves run as it is
SleepCanceledKeepsRun(w) ==
  /\ pc[w] = "backoff"
  /\ ctxDone
  /\ Fail(w, run[w])
  /\ UNCHANGED << params, mode, input, fvars, qclosed, closes, ctxDone, hist >>

\* lines 109-116, 121-122
SleepCanceled(w) ==
  /\ pc[w] = "backoff"
  /\ ctxDone
  /\ Fail(w, FALSE)
  /\ UNCHANGED << params, mode, input, fvars, qclosed, closes, ctxDone, hist >>

\* lines 92-96: the receive finds the channel closed
RecvClosed(w) ==
  /\ pc[w] = "idle"
  /\ qclosed
  /\ run' = [run EXCEPT ![w] = FALSE]
  /\ pc' = [pc EXCEPT ![w] = "done"]
  /\ wg' = wg - 1
  /\ UNCHANGED << params, mode, input, fvars, qclosed, closes, ctxDone,
                  job, jid, tries, bkf, sleepTime, stats, log, hist >>

\* Faulty variant: the outer select has no Done case
RecvCanceledMissing(w) ==
  /\ pc[w] = "idle"
  /\ ctxDone
  /\ FALSE
  /\ UNCHANGED vars

\* lines 124-126
RecvCanceled(w) ==
  /\ pc[w] = "idle"
  /\ ctxDone
  /\ run' = [run EXCEPT ![w] = FALSE]
  /\ pc' = [pc EXCEPT ![w] = "done"]
  /\ wg' = wg - 1
  /\ UNCHANGED << params, mode, input, fvars, qclosed, closes, ctxDone,
                  job, jid, tries, bkf, sleepTime, stats, log, hist >>

\* ------------------------------------------------------------------ feeder
\* singleRun returns r to Run (line 191) or to RunCmd (line 151)
Return(r) ==
  /\ ret' = IF r THEN "true" ELSE "false"
  /\ IF mode = "Run"
       THEN /\ frun' = r
            /\ fpc' = IF r THEN "read" ELSE "wait"
       ELSE /\ frun' = frun
            /\ fpc' = "cmdClose"

\* line 176, ReadOne returns a line
ReadLine ==
  /\ fpc = "read"
  /\ pos < Len(input)
  /\ pos' = pos + 1
  /\ line' = input[pos + 1]
  /\ fpc' = "singleRun"
  /\ UNCHANGED << params, mode, input, frun, ret, closed, qclosed, closes,
                  ctxDone, wg, wvars, stats, log, hist >>

\* lines 176-184, ReadOne returns io.EOF
ReadEOF ==
  /\ fpc = "read"
  /\ pos = Len(input)
  /\ Close
  /\ closed' = TRUE
  /\ frun' = FALSE
  /\ fpc' = "wait"
  /\ UNCHANGED << params, mode, input, pos, line, ret, ctxDone, wg, wvars,
                  stats, log, hist >>

\* Faulty variant: the queue is closed when the read is canceled
ReadCanceledCloses ==
  /\ fpc = "read"
  /\ ctxDone
  /\ Close
  /\ closed' = TRUE
  /\ frun' = FALSE
  /\ fpc' = "wait"
  /\ UNCHANGED << params, mode, input, pos, line, ret, ctxDone, wg, wvars,
                  stats, log, hist >>

\* lines 176-184, ReadOne returns context.Canceled
ReadCanceled ==
  /\ fpc = "read"
  /\ ctxDone
  /\ frun' = FALSE
  /\ fpc' = "wait"
  /\ UNCHANGED << params, mode, input, pos, line, ret, closed, qclosed, closes,
                  ctxDone, wg, wvars, stats, log, hist >>

\* lines 176-188, ReadOne returns another error
ReadError ==
  /\ fpc = "read"
  /\ Printf(0, Entry("-ERR Error reading", 0, NoJob))
  /\ frun' = FALSE
  /\ fpc' = "wait"
  /\ UNCHANGED << params, mode, input, pos, line, ret, closed, qclosed, closes,
                  ctxDone, wg, wvars, stats, hist >>

\* Faulty variant: the parse error is logged but not counted
SingleRunParseUncounted ==
  /\ fpc = "singleRun"
  /\ IF ParseJob(line) = NoJob
       THEN /\ Printf(0, Entry("-ERR", pos, NoJob))
            /\ UNCHANGED stats
            /\ Return(TRUE)
       ELSE /\ fpc' = "send"
            /\ UNCHANGED << log, stats, frun, ret >>
  /\ UNCHANGED << params, mode, input, pos, line, closed, qclosed, closes,
                  ctxDone, wg, wvars, hist >>

\* lines 134-139: ParseJob, and the return on a parse error
SingleRunParse ==
  /\ fpc = "singleRun"
  /\ IF ParseJob(line) = NoJob
       THEN /\ Printf(0, Entry("-ERR", pos, NoJob))
            /\ Increment("FAIL")
            /\ Return(TRUE)
       ELSE /\ fpc' = "send"
            /\ UNCHANGED << log, stats, frun, ret >>
  /\ UNCHANGED << params, mode, input, pos, line, closed, qclosed, closes,
                  ctxDone, wg, wvars, hist >>

\* lines 92 and 144: worker w can take the job the feeder offers.  The idle
\* workers are interchangeable (same code, same local state), so the receiver
\* is fixed to be the idle worker of the lowest number.
RecvReady(w) ==
  /\ pc[w] = "idle" /\ fpc = "send" /\ ~ctxDone
  /\ \A v \in Workers : v < w => pc[v] # "idle"

\* Faulty variant: the job stays on offer after a worker has taken it
HandoffKeepsOffer(w) ==
  /\ RecvReady(w)
  /\ job' = [job EXCEPT ![w] = ParseJob(line)]
  /\ jid' = [jid EXCEPT ![w] = pos]
  /\ tries' = [tries EXCEPT ![w] = 0]
  /\ pc' = [pc EXCEPT ![w] = "exec"]
  /\ UNCHANGED << params, mode, input, fvars, qclosed, closes, ctxDone, wg,
                  run, bkf, sleepTime, stats, log, hist >>

\* lines 144-147 and 92-97: the job goes from singleRun to worker w
Handoff(w) ==
  /\ RecvReady(w)
  /\ job' = [job EXCEPT ![w] = ParseJob(line)]
  /\ jid' = [jid EXCEPT ![w] = pos]
  /\ tries' = [tries EXCEPT ![w] = 0]
  /\ pc' = [pc EXCEPT ![w] = "exec"]
  /\ Return(TRUE)
  /\ UNCHANGED << params, mode, input, pos, line, closed, qclosed, closes,
                  ctxDone, wg, run, bkf, sleepTime, stats, log, hist >>

\* Faulty variant: the canceled submit returns true
SendAbortReturnsTrue ==
  /\ fpc = "send"
  /\ ctxDone
  /\ Return(TRUE)
  /\ UNCHANGED << params, mode, input, pos, line, closed, qclosed, closes,
                  ctxDone, wg, wvars, stats, log, hist >>

\* lines 142-143
SendAbort ==
  /\ fpc = "send"
  /\ ctxDone
  /\ Return(FALSE)
  /\ UNCHANGED << params, mode, input, pos, line, closed, qclosed, closes,
                  ctxDone, wg, wvars, stats, log, hist >>

\* line 152
CmdClose ==
  /\ fpc = "cmdClose"
  /\ Close
  /\ fpc' = "wait"
  /\ UNCHANGED << params, mode, input, pos, line, frun, ret, closed, ctxDone,
                  wg, wvars, stats, log, hist >>

\* Faulty variant: the join does not wait for the workers
WaitReturnsAtOnce == TRUE

\* lines 153 and 195: p.wg.Wait() returns
WaitReturns == wg = 0

Wait ==
  /\ fpc = "wait"
  /\ WaitReturns
  /\ fpc' = IF mode = "Run" THEN "afterWait" ELSE "returned"
  /\ UNCHANGED << params, mode, input, pos, line, frun, ret, closed, qclosed,
                  closes, ctxDone, wg, wvars, stats, log, hist >>

\* Faulty variant: Run closes the queue after the join whatever closed is
AfterWaitAlwaysCloses ==
  /\ fpc = "afterWait"
  /\ Close
  /\ fpc' = "returned"
  /\ UNCHANGED << params, mode, input, pos, line, frun, ret, closed, ctxDone,
                  wg, wvars, stats, log, hist >>

\* lines 197-199
AfterWait ==
  /\ fpc = "afterWait"
  /\ IF ~closed THEN Close ELSE UNCHANGED << qclosed, closes >>
  /\ fpc' = "returned"
  /\ UNCHANGED << params, mode, input, pos, line, frun, ret, closed, ctxDone,
                  wg, wvars, stats, log, hist >>

\* the cancelFunc of the context is called (by the signal handler or a job)
Cancel ==
  /\ ~ctxDone
  /\ ctxDone' = TRUE
  /\ UNCHANGED << params, mode, input, fvars, qclosed, closes, wg, wvars,
                  stats, log, hist >>

WorkerStep(w) ==
  \/ Handoff(w)
  \/ JobRun(w)
  \/ SleepElapsed(w)
  \/ SleepCanceled(w)
  \/ RecvClosed(w)
  \/ RecvCanceled(w)

FeederStep ==
  \/ ReadLine
  \/ ReadEOF
  \/ ReadCanceled
  \/ ReadError
  \/ SingleRunParse
  \/ SendAbort
  \/ CmdClose
  \/ Wait
  \/ AfterWait

Next ==
  \/ \E w \in Workers : Handoff(w)
  \/ \E w \in Workers : JobRun(w)
  \/ \E w \in Workers : SleepElapsed(w)
  \/ \E w \in Workers : SleepCanceled(w)
  \/ \E w \in Workers : RecvClosed(w)
  \/ \E w \in Workers : RecvCanceled(w)
  \/ FeederStep
  \/ Cancel

Spec == Init /\ [][Next]_vars

\* One worker, at most one line, and a retry budget large enough for the
\* backoff to reach MaxInterval.
InitDeep == InitWith({MaxRetriesDeep}, {1}, 1)

DeepSpec == InitDeep /\ [][Next]_vars

\* Every goroutine that can take a step is scheduled: the workers, and the
\* caller of Run or RunCmd.  Nothing obliges the context to be canceled.
FairSpec ==
  /\ Spec
  /\ \A w \in 1 .. MaxWorkers : WF_vars(w \in Workers /\ WorkerStep(w))
  /\ WF_vars(FeederStep)

TypeOK ==
  /\ wg \in 0 .. params.NumWorkers
  /\ \A w \in Workers : pc[w] \in {"idle", "exec", "backoff", "done"}
  /\ \A w \in Workers : (job[w] # NoJob) <=> pc[w] \in {"exec", "backoff"}
  /\ wg = Cardinality({w \in Workers : pc[w] # "done"})
  /\ closes <= 1

\* --------------------------------------------------------------- auxiliary
Insts == DOMAIN hist

\* The lines of kind k that the workers logged for node n of line i.
Logged(k, i, n) ==
  {p \in UNION {{w} \X DOMAIN log[w] : w \in Workers} :
     log[p[1]][p[2]] = Entry(k, i, n)}

Oks(i, n) == Cardinality(Logged("+OK", i, n))
Fails(i, n) == Cardinality(Logged("-ERR", i, n))
Notices(i, n) == Cardinality(Logged("?Ratelimit", i, n))
Resolutions(i, n) == Oks(i, n) + Fails(i, n)

\* The workers that logged a line for, or hold a node of, the chain of line i.
Handlers(i) ==
  {w \in Workers : jid[w] = i \/ \E k \in DOMAIN log[w] : log[w][k].jid = i}

\* The lines worker w logged for the chain of line i, in order.
Sel(w, i) == SelectSeq(log[w], LAMBDA e : e.jid = i)

\* Worker w resolves the node it holds in this step.
Resolves(w) == pc[w] \in {"exec", "backoff"} /\ job'[w] # job[w]

\* Line i went from singleRun to a worker.
Handed(i) ==
  /\ i \in 1 .. pos
  /\ ParseJob(input[i]) # NoJob
  /\ i = pos => fpc \notin {"singleRun", "send"} /\ ret = "true"

\* wg.Wait() of Run or RunCmd has returned.
Joined == fpc \in {"afterWait", "returned"}

\* ------------------------------------------------------------------ claims
\* The runs and log lines of an always rate-limited node before any cancel.
C1_Counts ==
  \A x \in Insts :
    (JobTable[x[2]].act = "rl" /\ Retries > 0 /\ ~ctxDone) =>
      /\ hist[x].runs <= Retries + 1
      /\ Oks(x[1], x[2]) = 0
      /\ Fails(x[1], x[2]) <= 1
      /\ Fails(x[1], x[2]) = 1 => hist[x].runs = Retries + 1

\* The step that resolves an always rate-limited node before any cancel.
C1_Step ==
  \A w \in Workers :
    (Resolves(w) /\ JobTable[job[w]].act = "rl" /\ Retries > 0 /\ ~ctxDone') =>
      /\ hist'[jid[w], job[w]].runs = Retries + 1
      /\ job'[w] = JobTable[job[w]].failCommand
      /\ JobTable[job[w]].successCommand # NoJob =>
            job'[w] # JobTable[job[w]].successCommand
      /\ log'[w] = Append(log[w], Entry("-ERR", jid[w], job[w]))
      /\ job'[w] = NoJob => pc'[w] = "idle"

\* C1: a node whose action is rate-limited on every attempt, with Retries > 0
\* and no cancellation, is run exactly Retries + 1 times, is then resolved as
\* a failure, and the worker advances to its failure continuation (to idle
\* when it has none), never to its success continuation.
C1_RateLimitedRunsRetriesPlusOne == [](C1_Counts) /\ [][C1_Step]_vars

C1_Witness ==
  /\ ~ctxDone
  /\ Retries > 0
  /\ \E i \in 1 .. Len(input) :
       /\ Fails(i, "R") = 1 /\ hist[i, "R"].runs = Retries + 1
       /\ Fails(i, "Q") = 1 /\ hist[i, "Q"].runs = Retries + 1
       /\ \E w \in Workers : Sel(w, i) # << >> /\ pc[w] = "idle"

\* The chain of line i was walked once, from its root, by one worker.
C2_Chain(i) ==
  /\ Resolutions(i, ParseJob(input[i])) = 1
  /\ Cardinality(Handlers(i)) = 1
  /\ \A w \in Workers : jid[w] # i
  /\ \A n \in Nodes :
       /\ Resolutions(i, n) <= 1
       /\ (Oks(i, n) = 1 /\ JobTable[n].successCommand # NoJob) =>
             Resolutions(i, JobTable[n].successCommand) = 1
       /\ (Fails(i, n) = 1 /\ JobTable[n].failCommand # NoJob) =>
             Resolutions(i, JobTable[n].failCommand) = 1
       /\ Resolutions(i, n) = 1 =>
             \/ n = ParseJob(input[i])
             \/ \E m \in Nodes :
                  \/ Oks(i, m) = 1 /\ JobTable[m].successCommand = n
                  \/ Fails(i, m) = 1 /\ JobTable[m].failCommand = n

\* C2: without cancellation, when the join (wg.Wait) has returned, every line
\* of the input has been read, and for every job handed to the pool the root
\* and every continuation reached were resolved exactly once, all by one
\* worker; no other node of the chain was resolved, and none twice.
C2_AllResolvedOnceAtJoin ==
  (Joined /\ ~ctxDone) =>
    /\ pos = Len(input)
    /\ \A i \in 1 .. Len(input) :
         IF ParseJob(input[i]) # NoJob THEN Handed(i) /\ C2_Chain(i)
                                       ELSE Handlers(i) = {}

C2_Witness ==
  /\ fpc = "returned"
  /\ ~ctxDone
  /\ params.NumWorkers = MaxWorkers
  /\ Len(input) = MaxLines
  /\ \A i \in 1 .. Len(input) : ParseJob(input[i]) # NoJob
  /\ Cardinality(UNION {Handlers(i) : i \in 1 .. Len(input)}) > 1

\* What all nodes together added to STATS_RETRYOP and to STATS_FAIL.
RECURSIVE SumRetryops(_)
SumRetryops(X) ==
  IF X = {} THEN 0
  ELSE LET x == CHOOSE y \in X : TRUE
       IN  hist[x].retryops + SumRetryops(X \ {x})

RECURSIVE SumFails(_)
SumFails(X) ==
  IF X = {} THEN 0
  ELSE LET x == CHOOSE y \in X : TRUE
       IN  Fails(x[1], x[2]) + SumFails(X \ {x})

ParseErrors == Cardinality({k \in DOMAIN log[0] : log[0][k].kind = "-ERR"})

\* C3: resolving a node whose action is rate-limited on every attempt, with
\* no cancellation, adds exactly Retries to STATS_RETRYOP and exactly 1 to
\* STATS_FAIL, whatever the other workers do; the two counters are the sums
\* of what every node and every parse error added.
C3_RetryAndFailCounters ==
  /\ stats.RETRYOP = SumRetryops(Insts)
  /\ stats.FAIL = SumFails(Insts) + ParseErrors
  /\ \A x \in Insts :
       (JobTable[x[2]].act = "rl" /\ ~ctxDone) =>
         /\ hist[x].retryops <= Retries
         /\ Fails(x[1], x[2]) <= 1
         /\ Fails(x[1], x[2]) = 1 => hist[x].retryops = Retries

C3_Witness ==
  /\ ~ctxDone
  /\ Retries = 2
  /\ Len(input) = 2
  /\ \A i \in 1 .. 2 : Fails(i, "R") = 1 /\ hist[i, "R"].retryops = 2
  /\ Cardinality(Handlers(1) \cup Handlers(2)) = 2
  /\ stats.RETRYOP >= 4

\* The three success lines of the chain A -> B -> C of line i.
ABC(i) == << Entry("+OK", i, "A"), Entry("+OK", i, "B"), Entry("+OK", i, "C") >>

IsPrefix(s, t) == Len(s) <= Len(t) /\ SubSeq(t, 1, Len(s)) = s

Contiguous(w, i) ==
  \A a, b, c \in DOMAIN log[w] :
    (a < b /\ b < c /\ log[w][a].jid = i /\ log[w][c].jid = i) => log[w][b].jid = i

C4_Chain(i) ==
  /\ Cardinality(Handlers(i)) <= 1
  /\ \A n \in {"A", "B", "C"} : hist[i, n].runs <= 1
  /\ \A w \in Workers :
       /\ IsPrefix(Sel(w, i), ABC(i))
       /\ Contiguous(w, i)
       /\ jid[w] = i =>
            /\ pc[w] = "exec"
            /\ job[w] = ABC(i)[Len(Sel(w, i)) + 1].job
            /\ hist[i, job[w]].runs = 0
            /\ Len(Sel(w, i)) > 0 => log[w][Len(log[w])].jid = i
  /\ (Handed(i) /\ \A w \in Workers : jid[w] # i) =>
       /\ \E w \in Workers : Sel(w, i) = ABC(i)
       /\ \A n \in {"A", "B", "C"} : hist[i, n].runs = 1

\* C4: the chain A -> B -> C, all succeeding, is executed by the worker that
\* received A: A, B and C once each, three "+OK" lines in the order A, B, C
\* with no line of another job of that worker between them.
C4_ChainOnOneWorkerInOrder ==
  \A i \in 1 .. Len(input) : input[i] = "A" => C4_Chain(i)

C4_Witness ==
  /\ Len(input) = 2
  /\ input[2] = "A"
  /\ \E w \in Workers :
       /\ Sel(w, 2) = ABC(2)
       /\ Len(log[w]) > 3
       /\ params.NumWorkers = 2

\* The step a sleeping worker takes once the context is canceled.
C5_Step ==
  \A w \in Workers :
    (pc[w] = "backoff" /\ ctxDone /\ pc'[w] # "backoff") =>
      /\ log'[w] = Append(log[w], Entry("-ERR", jid[w], job[w]))
      /\ stats'.FAIL = stats.FAIL + 1
      /\ stats'.RETRYOP = stats.RETRYOP
      /\ hist' = hist
      /\ job'[w] = JobTable[job[w]].failCommand
      /\ pc'[w] = IF job'[w] # NoJob THEN "exec" ELSE "done"

\* A node that was resolved is no longer in the hand of a worker, so it is
\* not run again.
C5_ResolvedNotInHand ==
  \A w \in Workers : job[w] # NoJob => Resolutions(jid[w], job[w]) = 0

\* C5: when the context is canceled while a worker sleeps before a retry of
\* node N, the worker's next step resolves N as failed: one "-ERR" line,
\* STATS_FAIL + 1, STATS_RETRYOP unchanged, no further run of N, and the worker
\* is at N's failure continuation (or out of the chain) without sleeping.
C5_CancelDuringBackoffFailsNode ==
  [](C5_ResolvedNotInHand) /\ [][C5_Step]_vars

C5_Witness ==
  \E w \in Workers :
    /\ ctxDone
    /\ pc[w] = "exec"
    /\ job[w] = "Q"
    /\ ~run[w]
    /\ hist[jid[w], "R"].runs = 1
    /\ Sel(w, jid[w]) =
         << Entry("?Ratelimit", jid[w], "R"), Entry("-ERR", jid[w], "R") >>

\* After the cancel an idle worker stays idle or terminates.
C6_IdleStep ==
  ctxDone => \A w \in Workers : pc[w] = "idle" => pc'[w] \in {"idle", "done"}

AllReturned == fpc = "returned" /\ \A w \in Workers : pc[w] = "done"

\* C6: once the context is canceled an idle worker takes no further job, it
\* only terminates; and (every attempt terminating, chains being finite, the
\* goroutines being scheduled) all workers terminate and Run or RunCmd
\* returns, also when the queue was not closed by end-of-input.
C6_CancelTerminatesPool ==
  (ctxDone ~> AllReturned) /\ [][C6_IdleStep]_vars

C6_Witness ==
  /\ AllReturned
  /\ ctxDone
  /\ mode = "Run"
  /\ ~closed
  /\ pos < Len(input)
  /\ \E w \in Workers : Len(log[w]) > 0 /\ ~run[w]

\* The steps possible while singleRun offers a job after the cancel.
C7_Step ==
  (fpc = "send" /\ ctxDone) =>
    /\ \A w \in Workers : pc[w] = "idle" => pc'[w] # "exec"
    /\ fpc' # "send" =>
         /\ ret' = "false"
         /\ mode = "Run" => (~frun' /\ fpc' = "wait")
         /\ UNCHANGED << job, jid, hist, log >>

\* The job of an aborted submit is with no worker.
C7_Aborted ==
  (ret = "false") =>
    /\ ctxDone
    /\ fpc \notin {"read", "singleRun", "send"}
    /\ Handlers(pos) = {}
    /\ \A n \in Nodes : hist[pos, n].runs = 0

\* C7: when the context is canceled before the job of singleRun is handed to
\* a worker, no worker receives it: singleRun returns false, and the job is
\* never held, run or logged by a worker.
C7_CanceledSubmitNeverHandsOver == [](C7_Aborted) /\ [][C7_Step]_vars

C7_Witness ==
  /\ fpc = "returned"
  /\ ret = "false"
  /\ pos = 2
  /\ \E w \in Workers : Sel(w, 1) # << >>

\* C8: a job instance is held by at most one worker at any time, and every
\* run and every log line of the nodes of one chain is of one worker.
C8_OneWorkerPerChain ==
  /\ \A w, v \in Workers : (w # v /\ jid[w] # 0) => jid[w] # jid[v]
  /\ \A i \in 1 .. Len(input) : Cardinality(Handlers(i)) <= 1
  /\ \A w \in Workers : jid[w] # 0 => Handed(jid[w])

C8_Witness ==
  /\ Len(input) = 2
  /\ \E w, v \in Workers :
       /\ w # v
       /\ pc[w] = "exec" /\ job[w] = "Q" /\ jid[w] = 1
       /\ pc[v] = "backoff" /\ job[v] = "R" /\ jid[v] = 2

C10_Step ==
  (fpc = "singleRun" /\ ParseJob(line) = NoJob /\ fpc' # fpc) =>
    /\ stats'.FAIL = stats.FAIL + 1
    /\ stats'.RETRYOP = stats.RETRYOP
    /\ log'[0] = Append(log[0], Entry("-ERR", pos, NoJob))
    /\ ret' = "true"
    /\ mode = "Run" => (frun' /\ fpc' = "read")
    /\ UNCHANGED << wvars, hist, wg >>

\* No worker ever holds, runs or logs a line that does not parse.
C10_NeverRun ==
  \A i \in 1 .. pos :
    ParseJob(input[i]) = NoJob =>
      /\ Handlers(i) = {}
      /\ \A n \in Nodes : hist[i, n].runs = 0
      /\ Cardinality({k \in DOMAIN log[0] : log[0][k].jid = i}) <= 1
      /\ (i < pos \/ fpc # "singleRun") =>
           Cardinality({k \in DOMAIN log[0] : log[0][k].jid = i}) = 1

\* C10: a line that does not parse is never sent and never run: singleRun
\* logs it, adds 1 to STATS_FAIL and nothing to STATS_RETRYOP, and returns
\* true, so that Run reads the next line.
C10_ParseFailureCountedNotQueued == [](C10_NeverRun) /\ [][C10_Step]_vars

C10_Witness ==
  /\ mode = "Run"
  /\ input = << "bad", "R" >>
  /\ pos = 2
  /\ stats.FAIL = 1
  /\ \E w \in Workers : job[w] = "R"

\* Worker w runs the node in its hand in this step.
Runs(w) ==
  /\ pc[w] = "exec"
  /\ hist'[jid[w], job[w]].runs = hist[jid[w], job[w]].runs + 1

\* The step in which job.Run returns an error that is not a rate-limit error.
C11_Step ==
  \A w \in Workers :
    (Runs(w) /\ hist'[jid[w], job[w]].err = "other") =>
      /\ pc'[w] # "backoff"
      /\ log'[w] = Append(log[w], Entry("-ERR", jid[w], job[w]))
      /\ stats'.FAIL = stats.FAIL + 1
      /\ stats'.RETRYOP = stats.RETRYOP
      /\ job'[w] = JobTable[job[w]].failCommand
      /\ pc'[w] = IF job'[w] # NoJob THEN "exec"
                  ELSE IF run[w] THEN "idle" ELSE "done"

\* A node whose last attempt returned such an error is resolved as failed,
\* is in no worker's hand, and was run once more than it was retried.
C11_Terminal ==
  \A x \in Insts :
    hist[x].err = "other" =>
      /\ Fails(x[1], x[2]) = 1
      /\ Oks(x[1], x[2]) = 0
      /\ \A w \in Workers : ~(jid[w] = x[1] /\ job[w] = x[2])
      /\ hist[x].runs = hist[x].retryops + 1
      /\ JobTable[x[2]].act = "err" => hist[x].runs = 1

\* C11: a node whose action fails with an error that is not a rate-limit
\* error is not run again, whatever Retries is: that attempt resolves it as
\* failed (one "-ERR" line, STATS_FAIL + 1, STATS_RETRYOP unchanged) and the
\* worker advances to its failure continuation.
C11_OtherErrorIsTerminal == [](C11_Terminal) /\ [][C11_Step]_vars

C11_Witness ==
  \E w \in Workers :
    /\ Retries = MaxRetries
    /\ ~ctxDone
    /\ pc[w] = "exec"
    /\ job[w] = "Z"
    /\ hist[jid[w], "X"] = [runs |-> 1, retryops |-> 0, err |-> "other"]
    /\ Fails(jid[w], "X") = 1

\* C12: with Retries = 0 no node is run more than once, no worker sleeps
\* before a retry, no retry notice is logged, STATS_RETRYOP stays 0, and a
\* node whose attempt returned a rate-limit error is resolved as failed by
\* that attempt.
C12_ZeroRetriesNoBackoff ==
  Retries = 0 =>
    /\ stats.RETRYOP = 0
    /\ \A w \in Workers : pc[w] # "backoff" /\ tries[w] = 0
    /\ \A x \in Insts :
         /\ hist[x].runs <= 1
         /\ hist[x].retryops = 0
         /\ Notices(x[1], x[2]) = 0
         /\ hist[x].err = "ratelimit" =>
              /\ Fails(x[1], x[2]) = 1
              /\ \A w \in Workers : ~(jid[w] = x[1] /\ job[w] = x[2])

C12_Witness ==
  /\ Retries = 0
  /\ \E i \in 1 .. Len(input) :
       /\ hist[i, "R"] = [runs |-> 1, retryops |-> 0, err |-> "ratelimit"]
       /\ Fails(i, "R") = 1
       /\ hist[i, "Q"].runs = 1
       /\ Fails(i, "Q") = 1

\* Run logged a read error of the line source.
ReadFailed == \E k \in DOMAIN log[0] : log[0][k].kind = "-ERR Error reading"

\* Run is at, or just past, wg.Wait().
AtJoin == mode = "Run" /\ fpc \in {"wait", "afterWait"}

\* C13 as stated: when Run starts to wait for the workers after its loop
\* stopped by end-of-input or by cancellation, the queue is closed.
C13_ClosedBeforeJoin == (AtJoin /\ ~ReadFailed) => qclosed

\* C13 amended: when the loop of Run stops by end-of-input the queue is closed
\* before Run waits for the workers; when it stops by cancellation (a canceled
\* read or an aborted submit) the queue is still open while Run waits, and is
\* closed only after wg.Wait() has returned, before Run returns.
C13_ClosedBeforeJoinOnlyOnEOF ==
  mode = "Run" =>
    /\ (AtJoin /\ closed) => (qclosed /\ pos = Len(input))
    /\ (AtJoin /\ ~closed /\ ~ReadFailed) => (ctxDone /\ ~qclosed)
    /\ fpc = "afterWait" => wg = 0
    /\ fpc = "returned" => (qclosed /\ closes = 1 /\ wg = 0)
    /\ fpc \in {"read", "singleRun", "send"} => ~qclosed

C13_Witness ==
  /\ mode = "Run"
  /\ fpc = "afterWait"
  /\ ctxDone
  /\ ~ReadFailed
  /\ ~qclosed
  /\ ret = "false"
  /\ \E w \in Workers : Len(log[w]) > 0

\* The backoff's current interval after k calls of NextBackOff since Reset.
RECURSIVE IntervalAfter(_)
IntervalAfter(k) ==
  IF k = 0 THEN InitialInterval ELSE IncrementCurrentInterval(IntervalAfter(k - 1))

\* C14: tries and the backoff's interval belong to the node in hand: they
\* are at their initial values when a node starts (also a continuation,
\* whatever its predecessor consumed), grow by one step with every retry of
\* that node and are not reset between its retries; so without cancellation
\* every node that is always rate-limited, root or continuation, is run
\* Retries + 1 times.
C14_FreshBudgetPerNode ==
  /\ \A w \in Workers :
       IF job[w] = NoJob
         THEN tries[w] = 0 /\ bkf[w] = InitialInterval
         ELSE LET h == hist[jid[w], job[w]]
              IN  /\ tries[w] = h.retryops + (IF pc[w] = "backoff" THEN 1 ELSE 0)
                  /\ tries[w] = h.runs
                  /\ tries[w] <= Retries
                  /\ bkf[w] = IntervalAfter(tries[w])
                  /\ pc[w] = "backoff" =>
                       sleepTime[w] \in
                         RandomValuesFromInterval(IntervalAfter(tries[w] - 1))
  /\ \A x \in Insts :
       (JobTable[x[2]].act = "rl" /\ Fails(x[1], x[2]) = 1 /\ ~ctxDone) =>
         hist[x].runs = Retries + 1

C14_Witness ==
  \E w \in Workers :
    /\ Retries = MaxRetries
    /\ ~ctxDone
    /\ job[w] = "Q"
    /\ pc[w] = "backoff"
    /\ tries[w] = 1
    /\ bkf[w] = InitialInterval * Multiplier
    /\ hist[jid[w], "R"].retryops = MaxRetries
    /\ Fails(jid[w], "R") = 1

\* The steps of the workers once the context is canceled.
C15_Step ==
  ctxDone =>
    /\ stats'.RETRYOP = stats.RETRYOP
    /\ \A x \in Insts : hist'[x].retryops = hist[x].retryops
    /\ \A w \in Workers :
         /\ (Runs(w) /\ hist'[jid[w], job[w]].err = "ratelimit"
                     /\ tries[w] < Retries) =>
              /\ pc'[w] = "backoff"
              /\ job'[w] = job[w]
              /\ stats' = stats
         /\ (pc[w] = "backoff" /\ pc'[w] # "backoff") =>
              /\ hist' = hist
              /\ job'[w] = JobTable[job[w]].failCommand
              /\ Fails(jid[w], job[w]) = 0
              /\ log'[w] = Append(log[w], Entry("-ERR", jid[w], job[w]))
              /\ stats'.FAIL = stats.FAIL + 1

C16_Step ==
  \A w \in Workers :
    /\ (pc[w] = "backoff" /\ ctxDone /\ pc'[w] # "backoff") => ~run'[w]
    /\ (~run[w] /\ pc[w] # "done") =>
         /\ ~run'[w]
         /\ pc'[w] \in {"exec", "backoff", "done"}
         /\ jid'[w] \in {jid[w], 0}
         /\ Resolves(w) =>
              /\ job'[w] \in {JobTable[job[w]].failCommand,
                              JobTable[job[w]].successCommand}
              /\ pc'[w] = IF job'[w] # NoJob THEN "exec" ELSE "done"
              /\ Resolutions(jid[w], job[w]) = 0
              /\ hist'[jid[w], job[w]].runs >= 1

\* A worker with run = false is in a chain or has terminated, never idle.
C16_NotIdle ==
  \A w \in Workers :
    ~run[w] => /\ pc[w] # "idle"
               /\ pc[w] # "done" => (ctxDone /\ job[w] # NoJob /\ jid[w] # 0)

\* C16: a worker whose backoff sleep was interrupted by the cancel has run =
\* false; it goes on through its chain (failure continuation and what
\* follows, every node run and resolved), never becomes idle again and so
\* receives no further job, also while singleRun offers one, and terminates
\* at the end of the chain.
C16_InterruptedWorkerEndsChainThenExits ==
  [](C16_NotIdle) /\ [][C16_Step]_vars

C16_Witness ==
  \E w \in Workers :
    /\ pc[w] = "done"
    /\ fpc = "send"
    /\ Retries = MaxRetries
    /\ \E i \in 1 .. Len(input) :
         /\ hist[i, "Q"].runs = 1
         /\ Sel(w, i) = << Entry("?Ratelimit", i, "R"), Entry("-ERR", i, "R"),
                           Entry("?Ratelimit", i, "Q"), Entry("-ERR", i, "Q") >>

\* The retry notices of all nodes together.
RECURSIVE SumNotices(_)
SumNotices(X) ==
  IF X = {} THEN 0
  ELSE LET x == CHOOSE y \in X : TRUE
       IN  Notices(x[1], x[2]) + SumNotices(X \ {x})

\* The runs of all nodes after their first.
RECURSIVE SumReruns(_)
SumReruns(X) ==
  IF X = {} THEN 0
  ELSE LET x == CHOOSE y \in X : TRUE
       IN  (IF hist[x].runs > 0 THEN hist[x].runs - 1 ELSE 0) + SumReruns(X \ {x})

\* Every worker has terminated.
Drained == wg = 0

\* C17 as stated: once the pool has drained, in every run, STATS_RETRYOP is
\* the number of retry notices logged and the number of re-executions, and
\* STATS_FAIL is the number of "-ERR" lines of jobs plus the parse failures.
C17_CountersMatchLog ==
  Drained =>
    /\ stats.RETRYOP = SumNotices(Insts)
    /\ stats.RETRYOP = SumReruns(Insts)
    /\ stats.FAIL = SumFails(Insts) + ParseErrors

\* C17 amended: once the pool has drained, STATS_RETRYOP is the number of
\* re-executions of nodes and STATS_FAIL is the number of "-ERR" lines of jobs
\* plus the parse failures; the retry notice is logged before the sleep and
\* the counter is incremented after it, so a node whose sleep was interrupted
\* by the cancel has one notice more than retries, and the notices equal
\* STATS_RETRYOP only in runs that are not canceled.
C17_CountersMatchRuns ==
  Drained =>
    /\ stats.RETRYOP = SumReruns(Insts)
    /\ stats.RETRYOP = SumRetryops(Insts)
    /\ stats.FAIL = SumFails(Insts) + ParseErrors
    /\ \A x \in Insts :
         /\ Notices(x[1], x[2]) \in {hist[x].retryops, hist[x].retryops + 1}
         /\ Notices(x[1], x[2]) # hist[x].retryops =>
              /\ ctxDone
              /\ Fails(x[1], x[2]) = 1
              /\ hist[x].err = "ratelimit"
    /\ ~ctxDone => stats.RETRYOP = SumNotices(Insts)

C17_Witness ==
  /\ Drained
  /\ ctxDone
  /\ stats.RETRYOP = 1
  /\ SumNotices(Insts) = 3
  /\ ParseErrors = 1
  /\ stats.FAIL = 3

\* C18: in every interleaving of one Run or one RunCmd with the workers and
\* the cancel, close(jobQueue) is called at most once, exactly once when the
\* call has returned, and the feeder is never reading, parsing or sending
\* once the queue is closed.
C18_ClosedOnceNoSendAfterClose ==
  /\ closes <= 1
  /\ qclosed <=> closes = 1
  /\ fpc = "returned" => closes = 1
  /\ fpc \in {"read", "singleRun", "send"} => closes = 0
  /\ (mode = "Run" /\ closed) => closes = 1
  /\ \A w \in Workers : (job[w] # NoJob /\ ~qclosed) => fpc # "returned"

C18_Witness ==
  /\ fpc = "returned"
  /\ mode = "Run"
  /\ closed
  /\ ctxDone
  /\ closes = 1
  /\ pos = MaxLines
  /\ \A w \in Workers : Len(log[w]) > 0
  /\ params.NumWorkers = MaxWorkers

\* C19 as stated: every attempt terminating, chains being finite and the
\* goroutines being scheduled, Run returns whichever way its loop stopped:
\* end-of-input, cancellation, an aborted submit or another read error.
C19_RunEventuallyReturns == (mode = "Run") ~> (fpc = "returned")

\* A worker terminates from idle or by resolving the last node of its chain.
C20_Step ==
  \A w \in Workers :
    (pc[w] # "done" /\ pc'[w] = "done") =>
      \/ pc[w] = "idle" /\ (qclosed \/ ctxDone)
      \/ /\ Resolves(w)
         /\ job'[w] = NoJob
         /\ \/ /\ log'[w] = Append(log[w], Entry("+OK", jid[w], job[w]))
               /\ JobTable[job[w]].successCommand = NoJob
            \/ /\ log'[w] = Append(log[w], Entry("-ERR", jid[w], job[w]))
               /\ JobTable[job[w]].failCommand = NoJob

\* A chain that was handed over and is in no worker's hand is resolved from
\* its root to its end, every resolved node having been run.
C20_Whole ==
  /\ \A w \in Workers : pc[w] = "done" => (job[w] = NoJob /\ jid[w] = 0)
  /\ \A i \in 1 .. Len(input) :
       (Handed(i) /\ \A w \in Workers : jid[w] # i) =>
         /\ C2_Chain(i)
         /\ \A n \in Nodes : Resolutions(i, n) = 1 => hist[i, n].runs >= 1

\* C20: a worker terminates only from idle or after the last node of its
\* chain: once a job is received, every node reached along the chain is run
\* and resolved ("+OK" or "-ERR") before the worker exits, also when the
\* context is canceled or the queue is closed while the chain is in progress.
C20_ChainRunsToItsEnd == [](C20_Whole) /\ [][C20_Step]_vars

C20_Witness ==
  \E w \in Workers :
    /\ pc[w] = "done"
    /\ ctxDone
    /\ qclosed
    /\ closed
    /\ Retries = 1
    /\ \E i \in 1 .. Len(input) :
         Sel(w, i) = << Entry("?Ratelimit", i, "R"), Entry("-ERR", i, "R"),
                        Entry("?Ratelimit", i, "Q"), Entry("-ERR", i, "Q") >>
====
